---- MODULE Spec2Model ----
(***************************************************************************)
(* Model of the resumable transcription cache and chunked transcriber     *)
(* (Components/Transcription.py), of the highlight selector               *)
(* (Components/LanguageTasks.py), of the reframing of a clip              *)
(* (Components/FaceCrop.py) and of the clip loop of main.py.              *)
(*                                                                         *)
(* The cache directory holds, for the one audio identity under study,     *)
(* three files: <key>_progress.json, <key>_complete.json and              *)
(* <key>_transcript.txt.  A file is a record [kind, items]:               *)
(*   kind "absent"  the file does not exist                               *)
(*   kind "trunc"   the file exists but json.load fails on it (it was     *)
(*                  opened with mode 'w' and the dump has not finished)   *)
(*   kind "list"    a JSON array; items are its entries                   *)
(*   kind "object"  a non-empty JSON object; items are its keys           *)
(*   kind "number"  a non-zero JSON number                                *)
(*   kind "text"    the formatted transcript text                         *)
(* An entry is [shape, text, start, end]: shape "seg" is a dict with the  *)
(* three keys, "nokey" a dict without 'text', "nondict" anything else.    *)
(* An in-memory segment is the list <<text, start, end>>.                 *)
(*                                                                         *)
(* Environment: the audio file exists and is not empty, the Whisper model *)
(* loads, split_audio succeeds and the disk accepts every write; the      *)
(* engine may raise on any chunk and the process may be killed at any     *)
(* point of a run.  A write opens its target with mode 'w' (the file is   *)
(* truncated) and then dumps into it, so every write takes two steps.     *)
(***************************************************************************)
EXTENDS Integers, Sequences, FiniteSets, TLC

\* ---------------------------------------------------------------- bounds
NumChunks == 2      \* chunks the audio splits into
MaxSegs   == 6      \* most segments the engine returns for one chunk
SegLen    == 4      \* seconds one engine segment lasts
MaxRuns   == 3      \* runs of transcribe_audio in one behaviour

\* ------------------------------------------------------ program constants
chunk_duration == 30
SegsPerChunkEstimate == 3

VARIABLES
  audio,             \* the audio bytes: chunk index -> segments the engine hears
  progress,          \* <key>_progress.json
  complete,          \* <key>_complete.json
  textfile,          \* <key>_transcript.txt
  pc,                \* position of the run of transcribe_audio
  current_segments,  \* transcribe_audio's accumulated list
  i,                 \* loop index of the chunk loop
  cached,            \* result of get_cached_transcription in this run
  ret,               \* value returned by the last run that returned
  sttCalls,          \* model.transcribe invocations of the current run
  runs,              \* runs started so far
  commitWritten,     \* history: some commit has finished writing the complete file
  prevRun            \* history: how the previous run ended and what it returned

tvars == <<audio, progress, complete, textfile, pc, current_segments, i,
           cached, ret, sttCalls, runs, commitWritten, prevRun>>

\* state of one call of get_highlight_via_ollama
VARIABLES
  transcript,        \* the transcription argument: list of <<text, start, end>>
  num_clips,
  max_retries,
  retries_left,
  response,          \* what client.chat did in the last attempt
  valid_clips,       \* valid_clips at the end of the last attempt
  result,            \* the returned list
  chatCalls,         \* client.chat invocations
  spc                \* position of get_highlight_via_ollama

svars == <<transcript, num_clips, max_retries, retries_left, response, valid_clips,
           result, chatCalls, spc>>

\* state of one call of get_highlight_via_json
VARIABLES
  json_data,         \* the json_data argument, parsed
  json_num_clips,    \* the num_clips argument
  json_result,       \* the returned list
  jpc                \* position of get_highlight_via_json

jvars == <<json_data, json_num_clips, json_result, jpc>>

\* state of one call of crop_to_vertical
VARIABLES
  original_width,
  original_height,
  x_start,
  x_end,
  frame_count,
  centerX,           \* centerX of the last frame
  emitted,           \* the crop written for the last frame: window and width
  noFace,            \* history: no frame so far had a detection
  before,            \* history: x_start and x_end when the last frame was read
  cpc                \* position of crop_to_vertical

cvars == <<original_width, original_height, x_start, x_end, frame_count, centerX,
           emitted, noFace, before, cpc>>

\* state of the clip loop of main
VARIABLES
  batch,             \* number of segments handed to generate_multiple_shorts
  initial,           \* clip index -> the initial short <name>_<k>.mp4 exists
  cut,               \* history: clip index -> generate_multiple_shorts wrote it
  outcome,           \* clip index -> how main's iteration for the clip ended
  clip,              \* loop index of main's clip loop
  mpc,               \* position of main
  handed,            \* the transcript main passed to getSegments, and the run it came from
  temp_audio,        \* temp/temp_audio.mp3: the clip it was extracted from, 0 if absent
  temp_output,       \* temp/temp_output.mp4: the clip it was written for, 0 if absent
  produced           \* clip index -> what crop_to_vertical muxed into the cropped short

mvars == <<batch, initial, cut, outcome, clip, mpc, handed, temp_audio, temp_output,
           produced>>

\* two runs of transcribe_audio at the same time, on different audio files
VARIABLES
  chunk_files,       \* temp/chunk_<c>.wav: the run whose audio it holds, 0 if absent
  conc_len,          \* run -> number of chunks of its audio
  conc_pc,           \* run -> position of the run
  conc_exported,     \* run -> chunks split_audio has exported so far
  conc_i,            \* run -> loop index of the chunk loop
  conc_segments      \* run -> current_segments, a segment being <<audio heard, chunk>>

wvars == <<chunk_files, conc_len, conc_pc, conc_exported, conc_i, conc_segments>>

\* state of one call of TranscriptionCache.save_progress
VARIABLES
  cache_key,         \* the cache_key argument
  segments,          \* the segments argument
  is_complete,       \* the is_complete argument
  saved,             \* the returned value
  files_before,      \* history: the three cache files when the call started
  ppc                \* position of save_progress

pvars == <<cache_key, segments, is_complete, saved, files_before, ppc>>

vars == <<tvars, svars, jvars, cvars, mvars, wvars, pvars>>

\* what the actions of one component leave alone
notT == <<svars, jvars, cvars, mvars, wvars, pvars>>
notS == <<tvars, jvars, cvars, mvars, wvars, pvars>>
notJ == <<tvars, svars, cvars, mvars, wvars, pvars>>
notC == <<tvars, svars, jvars, mvars, wvars, pvars>>
notM == <<tvars, svars, jvars, cvars, wvars, pvars>>
notW == <<tvars, svars, jvars, cvars, mvars, pvars>>
\* save_progress writes the cache files and leaves the rest alone
notP == <<audio, pc, current_segments, i, cached, ret, sttCalls, runs, commitWritten,
          prevRun, svars, jvars, cvars, mvars, wvars>>

\* ---------------------------------------------------------------- helpers
Absent == [kind |-> "absent", items |-> <<>>]
Trunc  == [kind |-> "trunc",  items |-> <<>>]
JsonList(es) == [kind |-> "list", items |-> es]
TextOf(segs) == [kind |-> "text", items |-> segs]

\* the dict save_progress builds for one segment (lines 73-78)
Serialize(seg) == [shape |-> "seg", text |-> seg[1], start |-> seg[2], end |-> seg[3]]
\* [s['text'], s['start'], s['end']] (lines 162, 166)
Deserialize(e) == <<e.text, e.start, e.end>>

serializable_segments(segs) == [k \in 1..Len(segs) |-> Serialize(segs[k])]

\* json.load on a file: an error for a truncated file, else the parsed value
JsonLoadFails(f) == f.kind = "trunc"
\* truthiness of the parsed value ("if progress_data:")
Truthy(f) == \/ f.kind \in {"object", "number"}
             \/ f.kind = "list" /\ Len(f.items) > 0
\* len(value) raises TypeError on a number
LenFails(f) == f.kind = "number"

NotFound == [raised |-> FALSE, found |-> FALSE, partial |-> FALSE, data |-> Absent]
Raised   == [raised |-> TRUE,  found |-> FALSE, partial |-> FALSE, data |-> Absent]

\* one "if file.exists(): try: ... except Exception" block of
\* get_cached_transcription: TRUE when the block returns the record
BlockReturns(f) == /\ f.kind # "absent"
                   /\ ~JsonLoadFails(f)
                   /\ Truthy(f)
                   /\ ~LenFails(f)

\* the bug C3 guards against: the read of a record is not guarded by try/except
ReadRaises(f) == f.kind # "absent" /\ (JsonLoadFails(f) \/ (Truthy(f) /\ LenFails(f)))
get_cached_transcription_unguarded(pf, cf) ==
  IF ReadRaises(pf) THEN Raised
  ELSE IF BlockReturns(pf)
    THEN [raised |-> FALSE, found |-> TRUE, partial |-> TRUE, data |-> pf]
  ELSE IF ReadRaises(cf) THEN Raised
  ELSE IF BlockReturns(cf)
    THEN [raised |-> FALSE, found |-> TRUE, partial |-> FALSE, data |-> cf]
  ELSE NotFound

get_cached_transcription(pf, cf) ==
  IF BlockReturns(pf)
    THEN [raised |-> FALSE, found |-> TRUE, partial |-> TRUE, data |-> pf]
  ELSE IF BlockReturns(cf)
    THEN [raised |-> FALSE, found |-> TRUE, partial |-> FALSE, data |-> cf]
  ELSE NotFound

\* split_audio: chunk index -> start time of the chunk in seconds
split_audio == [c \in 0..(NumChunks - 1) |-> c * chunk_duration]

\* what model.transcribe returns for chunk c, already shifted by the chunk's
\* start time (lines 193-201); texts are non-empty after strip
new_segments(c) ==
  [j \in 1..audio[c] |-> <<"w", (j - 1) * SegLen + split_audio[c],
                                 j * SegLen + split_audio[c]>>]

\* line 178
last_chunk(segs) == IF Len(segs) > 0 THEN Len(segs) \div SegsPerChunkEstimate ELSE 0

IsDict(e) == e.shape \in {"seg", "nokey"}
HasKeys(e) == e.shape = "seg"

DeserializeAll(es) == [k \in 1..Len(es) |-> Deserialize(es[k])]
AllHaveKeys(es) == \A k \in 1..Len(es) : HasKeys(es[k])

NoRun == [ended |-> "none", ret |-> <<>>, calls |-> 0]

\* ------------------------------------------------------------------ Init
\* the audio files: every chunk yields between 0 and MaxSegs segments
Audios == [0..(NumChunks - 1) -> 0..MaxSegs]

TInitCommon ==
  /\ audio \in Audios
  /\ textfile = Absent
  /\ pc = "idle"
  /\ current_segments = <<>>
  /\ i = 0
  /\ cached = NotFound
  /\ ret = <<>>
  /\ sttCalls = 0
  /\ runs = 0
  /\ commitWritten = FALSE
  /\ prevRun = NoRun

\* an empty cache directory (TranscriptionCache.__init__ on a first run)
TInit ==
  /\ TInitCommon
  /\ progress = Absent
  /\ complete = Absent

\* --------------------------------------------------------------- actions
\* transcribe_audio, lines 139-181: lookup, cache hit or set-up of the loop
Start ==
  /\ pc \in {"idle", "done", "raised"}
  /\ runs < MaxRuns
  /\ runs' = runs + 1
  /\ sttCalls' = 0
  /\ prevRun' = IF pc = "idle" THEN (IF runs = 0 THEN NoRun
                                     ELSE [ended |-> "killed", ret |-> <<>>, calls |-> sttCalls])
                 ELSE [ended |-> pc, ret |-> ret, calls |-> sttCalls]
  /\ LET lk == get_cached_transcription(progress, complete) IN
     /\ cached' = lk
     /\ IF lk.raised
          THEN pc' = "raised" /\ ret' = <<>> /\ current_segments' = <<>> /\ i' = 0
        ELSE IF lk.found /\ ~lk.partial
          THEN IF AllHaveKeys(lk.data.items)
                 THEN /\ pc' = "done"
                      /\ ret' = DeserializeAll(lk.data.items)
                      /\ current_segments' = <<>> /\ i' = 0
                 ELSE pc' = "raised" /\ ret' = <<>> /\ current_segments' = <<>> /\ i' = 0
        ELSE IF lk.found /\ lk.partial
          THEN LET dicts == SelectSeq(lk.data.items, IsDict) IN
               IF AllHaveKeys(dicts)
                 THEN /\ pc' = "loop"
                      /\ current_segments' = DeserializeAll(dicts)
                      /\ i' = last_chunk(DeserializeAll(dicts))
                      /\ ret' = <<>>
                 ELSE pc' = "raised" /\ ret' = <<>> /\ current_segments' = <<>> /\ i' = 0
        ELSE pc' = "loop" /\ current_segments' = <<>> /\ i' = 0 /\ ret' = <<>>
  /\ UNCHANGED <<audio, progress, complete, textfile, commitWritten>>
  /\ UNCHANGED notT

\* lines 181-206: the engine transcribes chunk i; a non-empty result is
\* appended and save_progress opens the progress file for writing
ChunkOK ==
  /\ pc = "loop" /\ i < NumChunks
  /\ sttCalls' = sttCalls + 1
  /\ IF Len(new_segments(i)) > 0
       THEN /\ current_segments' = current_segments \o new_segments(i)
            /\ progress' = Trunc
            /\ pc' = "ckpt_dump"
            /\ i' = i
       ELSE /\ i' = i + 1
            /\ UNCHANGED <<current_segments, progress, pc>>
  /\ UNCHANGED <<audio, complete, textfile, cached, ret, runs, commitWritten, prevRun>>
  /\ UNCHANGED notT

\* lines 105-107, 209-213: the dump of the checkpoint finishes, next chunk
CkptDump ==
  /\ pc = "ckpt_dump"
  /\ progress' = JsonList(serializable_segments(current_segments))
  /\ i' = i + 1
  /\ pc' = "loop"
  /\ UNCHANGED <<audio, complete, textfile, current_segments, cached, ret, sttCalls,
                 runs, commitWritten, prevRun>>
  /\ UNCHANGED notT

\* lines 215-219: model.transcribe raises on chunk i; the handler saves
\* what was accumulated
ChunkFail ==
  /\ pc = "loop" /\ i < NumChunks
  /\ sttCalls' = sttCalls + 1
  /\ IF Len(current_segments) > 0
       THEN progress' = Trunc /\ pc' = "err1_dump" /\ ret' = ret
       ELSE progress' = progress /\ pc' = "done" /\ ret' = current_segments
  /\ UNCHANGED <<audio, complete, textfile, current_segments, i, cached, runs,
                 commitWritten, prevRun>>
  /\ UNCHANGED notT

\* line 219 finishes; line 220 re-raises
Err1Dump ==
  /\ pc = "err1_dump"
  /\ progress' = JsonList(serializable_segments(current_segments))
  /\ pc' = "err_raise"
  /\ UNCHANGED <<audio, complete, textfile, current_segments, i, cached, ret, sttCalls,
                 runs, commitWritten, prevRun>>
  /\ UNCHANGED notT

\* lines 231-235: the outer handler catches the re-raised error and opens
\* the progress file again
ErrCatch ==
  /\ pc = "err_raise"
  /\ progress' = Trunc
  /\ pc' = "err2_dump"
  /\ UNCHANGED <<audio, complete, textfile, current_segments, i, cached, ret, sttCalls,
                 runs, commitWritten, prevRun>>
  /\ UNCHANGED notT

\* lines 235-236: the second save finishes, the partial list is returned
Err2Dump ==
  /\ pc = "err2_dump"
  /\ progress' = JsonList(serializable_segments(current_segments))
  /\ pc' = "done"
  /\ ret' = current_segments
  /\ UNCHANGED <<audio, complete, textfile, current_segments, i, cached, sttCalls,
                 runs, commitWritten, prevRun>>
  /\ UNCHANGED notT

\* lines 222-229, 85-88: after the last chunk; a non-empty list is committed,
\* save_progress opens the complete file for writing
AfterLoop ==
  /\ pc = "loop" /\ i >= NumChunks
  /\ IF Len(current_segments) > 0
       THEN complete' = Trunc /\ pc' = "commit_dump" /\ ret' = ret
       ELSE complete' = complete /\ pc' = "done" /\ ret' = current_segments
  /\ UNCHANGED <<audio, progress, textfile, current_segments, i, cached, sttCalls,
                 runs, commitWritten, prevRun>>
  /\ UNCHANGED notT

\* line 89: the dump of the complete file finishes
CommitDump ==
  /\ pc = "commit_dump"
  /\ complete' = JsonList(serializable_segments(current_segments))
  /\ commitWritten' = TRUE
  /\ pc' = "commit_unlink"
  /\ UNCHANGED <<audio, progress, textfile, current_segments, i, cached, ret, sttCalls,
                 runs, prevRun>>
  /\ UNCHANGED notT

\* lines 92-98: the progress file is removed, the text file is opened
CommitUnlink ==
  /\ pc = "commit_unlink"
  /\ progress' = Absent
  /\ textfile' = Trunc
  /\ pc' = "commit_text"
  /\ UNCHANGED <<audio, complete, current_segments, i, cached, ret, sttCalls, runs,
                 commitWritten, prevRun>>
  /\ UNCHANGED notT

\* lines 99-101, 229: the text file is written, the list is returned
CommitText ==
  /\ pc = "commit_text"
  /\ textfile' = TextOf(current_segments)
  /\ pc' = "done"
  /\ ret' = current_segments
  /\ UNCHANGED <<audio, progress, complete, current_segments, i, cached, sttCalls, runs,
                 commitWritten, prevRun>>
  /\ UNCHANGED notT

\* the process is killed while transcribe_audio runs: memory is lost, the
\* files stay as they are
Crash ==
  /\ pc \notin {"idle", "done", "raised"}
  /\ pc' = "idle"
  /\ current_segments' = <<>>
  /\ i' = 0
  /\ ret' = <<>>
  /\ UNCHANGED <<audio, progress, complete, textfile, cached, sttCalls, runs,
                 commitWritten, prevRun>>
  /\ UNCHANGED notT

Next == \/ Start \/ ChunkOK \/ CkptDump \/ ChunkFail \/ Err1Dump \/ ErrCatch
         \/ Err2Dump \/ AfterLoop \/ CommitDump \/ CommitUnlink \/ CommitText
         \/ Crash

\* =================================================== highlight selector
\* get_highlight_via_ollama (Components/LanguageTasks.py).  Transcript times
\* are floats with one decimal, written in tenths of a second; the windows
\* of the selector are integer seconds.

MaxRetries == 2     \* largest max_retries tried
MaxClips   == 2     \* largest num_clips tried
MaxProps   == 2     \* most entries in the "segments" array of one response


\* int(float(start)) of reformat_transcript: truncation toward zero
IntOfFloat(t) == IF t >= 0 THEN t \div 10 ELSE 0 - ((0 - t) \div 10)

\* reformat_transcript: one event "[<sec>s] <text>" per 3-element segment
reformat_transcript(tr) ==
  [k \in 1..Len(tr) |-> [sec |-> IntOfFloat(tr[k][2]), text |-> tr[k][1]]]

\* re.findall(r'\[(\d+)s\]', ...): \d+ does not match a minus sign
valid_times(tr) ==
  {reformat_transcript(tr)[k].sec : k \in 1..Len(tr)} \cap Nat

\* a time value of a proposal and what int() makes of it
TV(t, v) == [t |-> t, v |-> v]
IntConv(tv) ==
  CASE tv.t = "num"    -> [exc |-> "none", v |-> tv.v]
    [] tv.t = "str"    -> [exc |-> "none", v |-> tv.v]
    [] tv.t = "badstr" -> [exc |-> "ValueError", v |-> 0]
    [] OTHER           -> [exc |-> "TypeError", v |-> 0]

Clip(s, e)    == [shape |-> "clip", s |-> TV("num", s), e |-> TV("num", e)]
ClipStr(s, e) == [shape |-> "clip", s |-> TV("str", s), e |-> TV("str", e)]
NonDict == [shape |-> "nondict", s |-> TV("null", 0), e |-> TV("null", 0)]
NoKey   == [shape |-> "nokey",   s |-> TV("null", 0), e |-> TV("null", 0)]

\* the bug C9 guards against: the lower duration bound is not enforced
Accepts_noMinDuration(st, en, used) ==
  /\ st < en
  /\ en - st <= 60
  /\ ((st..en) \cap used = {} \/ en - st <= 3)

\* the bug C10 guards against: an overlap of up to 3 seconds is tolerated
Accepts_shortOverlap(st, en, used) ==
  /\ st < en
  /\ 15 <= en - st /\ en - st <= 60
  /\ (Cardinality((st..en) \cap used) <= 3 \/ en - st <= 3)

\* the bug C11 guards against: the upper duration bound is not enforced
Accepts_noMaxDuration(st, en, used) ==
  /\ st < en
  /\ 15 <= en - st
  /\ ((st..en) \cap used = {} \/ en - st <= 3)

\* the bug C14 guards against: the overlap test is missing
Accepts_anyOverlap(st, en, used) ==
  /\ st < en
  /\ 15 <= en - st /\ en - st <= 60

\* the bug C29 guards against: the start second is left out of the overlap test
Accepts_openStart(st, en, used) ==
  /\ st < en
  /\ 15 <= en - st /\ en - st <= 60
  /\ (((st + 1)..en) \cap used = {} \/ en - st <= 3)

\* lines 249-251: the acceptance test of one proposal
Accepts(st, en, used) ==
  /\ st < en
  /\ 15 <= en - st /\ en - st <= 60
  /\ ((st..en) \cap used = {} \/ en - st <= 3)

\* lines 238-260: the scan of the proposals of one response
RECURSIVE Scan(_, _, _, _, _)
Scan(clips, k, valid, used, n) ==
  IF k > Len(clips) THEN [exc |-> FALSE, valid |-> valid]
  ELSE LET c  == clips[k]
           cs == IntConv(c.s)
           ce == IntConv(c.e)
           st == cs.v
           en == ce.v
       IN
       IF c.shape # "clip" THEN Scan(clips, k + 1, valid, used, n)
       ELSE IF cs.exc = "ValueError" THEN Scan(clips, k + 1, valid, used, n)
       ELSE IF cs.exc = "TypeError" THEN [exc |-> TRUE, valid |-> valid]
       ELSE IF ce.exc = "ValueError" THEN Scan(clips, k + 1, valid, used, n)
       ELSE IF ce.exc = "TypeError" THEN [exc |-> TRUE, valid |-> valid]
       ELSE IF Accepts(st, en, used)
         THEN IF Len(valid) + 1 = n
                THEN [exc |-> FALSE, valid |-> Append(valid, <<st, en>>)]
                ELSE Scan(clips, k + 1, Append(valid, <<st, en>>), used \cup (st..en), n)
       ELSE Scan(clips, k + 1, valid, used, n)

\* the bug C13 guards against: the list is ordered latest-first
TupleLE_descending(a, b) == a[1] > b[1] \/ (a[1] = b[1] /\ a[2] >= b[2])

\* sorted() on a list of (start, end) tuples
TupleLE(a, b) == a[1] < b[1] \/ (a[1] = b[1] /\ a[2] <= b[2])
RECURSIVE Insert(_, _)
Insert(x, srt) ==
  IF srt = <<>> THEN <<x>>
  ELSE IF TupleLE(x, Head(srt)) THEN <<x>> \o srt
  ELSE <<Head(srt)>> \o Insert(x, Tail(srt))

RECURSIVE sorted(_)
sorted(sq) == IF sq = <<>> THEN <<>> ELSE Insert(Head(sq), sorted(Tail(sq)))

\* valid_clips[:n]
Prefix(sq, n) == IF n >= Len(sq) THEN sq ELSE SubSeq(sq, 1, n)

\* ---------------------------------------------------------- selector inputs
HelloWorld == << <<"hello", 0, 20>>, <<"world", 20, 45>> >>
Transcripts == { <<>>,
                 HelloWorld,
                 << <<"intro", 0 - 15, 10>> >> }

Proposals == { ClipStr(0, 4), Clip(10, 40), Clip(38, 70), Clip(40, 70),
               Clip(80, 95), Clip(100, 170), NoKey,
               [shape |-> "clip", s |-> TV("badstr", 0), e |-> TV("num", 30)],
               [shape |-> "clip", s |-> TV("num", 0), e |-> TV("null", 0)] }

RECURSIVE SeqsUpTo(_, _)
SeqsUpTo(S, n) ==
  IF n = 0 THEN {<<>>}
  ELSE SeqsUpTo(S, n - 1) \cup {Append(sq, x) : sq \in SeqsUpTo(S, n - 1), x \in S}

NoResponse == [kind |-> "none", clips |-> <<>>]
Responses ==
  {[kind |-> k, clips |-> <<>>] : k \in {"fail", "noenv", "badjson", "nosegments"}}
  \cup {[kind |-> "ok", clips |-> cl] : cl \in SeqsUpTo(Proposals, MaxProps)}

SInitCommon ==
  /\ retries_left = 0
  /\ response = NoResponse
  /\ valid_clips = <<>>
  /\ result = <<>>
  /\ chatCalls = 0

\* the selector is not called
SIdle ==
  /\ SInitCommon
  /\ transcript = <<>> /\ num_clips = 1 /\ max_retries = 0
  /\ spc = "off"

\* a call of get_highlight_via_ollama with its arguments
SInit ==
  /\ SInitCommon
  /\ transcript \in Transcripts
  /\ num_clips \in 1..MaxClips
  /\ max_retries \in (0 - 1)..MaxRetries
  /\ spc = "entry"

\* the transcriber is not running
TIdle ==
  /\ TInitCommon
  /\ audio = [c \in 0..(NumChunks - 1) |-> 0]
  /\ progress = Absent
  /\ complete = Absent

\* the bug C12 guards against: the loop test is off by one
loop_continues_offByOne(left) == left >= 0

\* line 211: the test of the retry loop
loop_continues(left) == left > 0

\* lines 145-209: the early returns and the set-up of the retry loop
SelEnter ==
  /\ spc = "entry"
  /\ IF Len(reformat_transcript(transcript)) = 0 \/ valid_times(transcript) = {}
       THEN /\ result' = << <<0, 30>> >>
            /\ spc' = "done"
            /\ retries_left' = retries_left
       ELSE /\ retries_left' = max_retries
            /\ spc' = "while"
            /\ result' = result
  /\ UNCHANGED <<transcript, num_clips, max_retries, response, valid_clips, chatCalls>>
  /\ UNCHANGED notS

\* lines 211-280: one iteration of the retry loop
Attempt ==
  /\ spc = "while" /\ loop_continues(retries_left)
  /\ \E resp \in Responses :
       LET sc == Scan(resp.clips, 1, <<>>, {}, num_clips) IN
       /\ response' = resp
       /\ chatCalls' = chatCalls + 1
       /\ IF resp.kind = "ok" /\ ~sc.exc /\ Len(sc.valid) >= num_clips
            THEN /\ valid_clips' = sc.valid
                 /\ result' = sorted(Prefix(sc.valid, num_clips))
                 /\ spc' = "done"
                 /\ retries_left' = retries_left
            ELSE /\ valid_clips' = IF resp.kind = "ok" THEN sc.valid ELSE <<>>
                 /\ retries_left' = retries_left - 1
                 /\ UNCHANGED <<result, spc>>
  /\ UNCHANGED <<transcript, num_clips, max_retries>>
  /\ UNCHANGED notS

\* lines 282-283: all attempts failed
Exhausted ==
  /\ spc = "while" /\ ~loop_continues(retries_left)
  /\ result' = <<>>
  /\ spc' = "done"
  /\ UNCHANGED <<transcript, num_clips, max_retries, retries_left, response,
                 valid_clips, chatCalls>>
  /\ UNCHANGED notS

NextSelect == SelEnter \/ Attempt \/ Exhausted

\* ====================================================== manual JSON path
\* get_highlight_via_json (Components/LanguageTasks.py, lines 285-321)

\* the bug C15 guards against: the upper duration bound is not enforced
json_keeps_noUpper(st, en) == 15 <= en - st

\* line 299: the duration test of the manual path
json_keeps(st, en) == 15 <= en - st /\ en - st <= 60

\* lines 293-313: the scan of the entries; KeyError and ValueError skip the
\* entry, any other error (TypeError) leaves the function
RECURSIVE ScanJson(_, _, _, _)
ScanJson(clips, k, valid, n) ==
  IF k > Len(clips) THEN [exc |-> FALSE, valid |-> valid]
  ELSE LET c  == clips[k]
           cs == IntConv(c.s)
           ce == IntConv(c.e)
           kept == IF json_keeps(cs.v, ce.v) THEN Append(valid, <<cs.v, ce.v>>) ELSE valid
       IN
       IF c.shape = "nondict" THEN [exc |-> TRUE, valid |-> valid]
       ELSE IF c.shape = "nokey" THEN ScanJson(clips, k + 1, valid, n)
       ELSE IF cs.exc = "ValueError" THEN ScanJson(clips, k + 1, valid, n)
       ELSE IF cs.exc = "TypeError" THEN [exc |-> TRUE, valid |-> valid]
       ELSE IF ce.exc = "ValueError" THEN ScanJson(clips, k + 1, valid, n)
       ELSE IF ce.exc = "TypeError" THEN [exc |-> TRUE, valid |-> valid]
       ELSE IF Len(kept) = n THEN [exc |-> FALSE, valid |-> kept]
       ELSE ScanJson(clips, k + 1, kept, n)

\* what json.loads makes of the json_data argument
JsonInputs ==
  {[kind |-> k, clips |-> <<>>] : k \in {"badjson", "nosegments"}}
  \cup {[kind |-> "ok", clips |-> cl] : cl \in SeqsUpTo(Proposals, MaxProps)}

\* get_highlight_via_json is not called
JIdle ==
  /\ json_data = NoResponse /\ json_num_clips = 1 /\ json_result = <<>> /\ jpc = "off"

\* a call of get_highlight_via_json with its arguments
JInit ==
  /\ json_data \in JsonInputs
  /\ json_num_clips \in 1..MaxClips
  /\ json_result = <<>>
  /\ jpc = "entry"

\* lines 285-321: the whole call
JsonCall ==
  /\ jpc = "entry"
  /\ LET sc == ScanJson(json_data.clips, 1, <<>>, json_num_clips) IN
     IF json_data.kind = "badjson"
       THEN json_result' = <<>> /\ jpc' = "done"
     ELSE IF sc.exc
       THEN json_result' = <<>> /\ jpc' = "raised"
     ELSE json_result' = sc.valid /\ jpc' = "done"
  /\ UNCHANGED <<json_data, json_num_clips>>
  /\ UNCHANGED notJ

NextJson == JsonCall

\* ============================================================ reframing
\* crop_to_vertical (Components/FaceCrop.py).  Lengths are pixels; a face box
\* is <<x1, w1>>, its left edge and width.

MaxFrames == 3      \* frames read from the clip
MaxFaces  == 2      \* most boxes detectMultiScale returns for one frame

\* properties of the clips tried
Heights == {8, 16}
Widths  == {4, 5, 9, 12}
FaceWidths == {2}

\* line 97: int(vertical_height * 9 / 16)
vertical_width(h) == (h * 9) \div 16
\* line 111
half_width(h) == vertical_width(h) \div 2
\* lines 109, 151: start of the centered window
centered_start(w, h) == (w - vertical_width(h)) \div 2

\* boxes that lie inside a frame of width w
FaceBoxes(w) == {b \in (0..(w - 1)) \X FaceWidths : b[1] + b[2] <= w}

\* width of frame[:, a:b] for a frame of width w: a negative bound counts
\* from the right edge, bounds are clipped to the frame
SliceBound(v, w) == IF v < 0 THEN (IF v + w < 0 THEN 0 ELSE v + w)
                    ELSE (IF v > w THEN w ELSE v)
SliceWidth(a, b, w) == IF SliceBound(b, w) > SliceBound(a, w)
                         THEN SliceBound(b, w) - SliceBound(a, w) ELSE 0

\* the bug C17 guards against: the default box starts at the frame's left edge
default_box_origin(xs, h) == <<0, vertical_width(h)>>

\* line 131: the box used when no face qualifies
default_box(xs, h) == <<xs, vertical_width(h)>>

\* lines 132-138: the first face whose centre lies inside the current window
RECURSIVE select_face(_, _, _, _, _)
select_face(faces, k, xs, xe, dflt) ==
  IF k > Len(faces) THEN dflt
  ELSE LET center == faces[k][1] + faces[k][2] \div 2 IN
       IF center > xs /\ center < xe THEN faces[k]
       ELSE select_face(faces, k + 1, xs, xe, dflt)

\* the bug C19 guards against: an empty crop is not replaced
fallback_start_missing(xs, zero, w, h) == xs

\* lines 150-151: an empty crop resets the window to the centered one
fallback_start(xs, zero, w, h) == IF zero THEN centered_start(w, h) ELSE xs

NoCrop == [xs |-> 0, xe |-> 0, width |-> 0, reset |-> FALSE]

CInitCommon ==
  /\ x_start = 0 /\ x_end = 0 /\ frame_count = 0 /\ centerX = 0
  /\ emitted = NoCrop /\ noFace = TRUE
  /\ before = [xs |-> 0, xe |-> 0]

\* crop_to_vertical is not called
CIdle ==
  /\ CInitCommon
  /\ original_width = 0 /\ original_height = 0
  /\ cpc = "off"

\* a call of crop_to_vertical on a clip of some size
CInit ==
  /\ CInitCommon
  /\ original_width \in Widths /\ original_height \in Heights
  /\ cpc = "entry"

\* lines 69-121: the clip is opened and the window is centered
CropEnter ==
  /\ cpc = "entry"
  /\ \E opened \in BOOLEAN :
       IF ~opened \/ original_width < vertical_width(original_height)
         THEN cpc' = "false" /\ UNCHANGED <<x_start, x_end>>
         ELSE /\ x_start' = centered_start(original_width, original_height)
              /\ x_end' = centered_start(original_width, original_height)
                            + vertical_width(original_height)
              /\ cpc' = "frames"
  /\ UNCHANGED <<original_width, original_height, frame_count, centerX, emitted, noFace,
                 before>>
  /\ UNCHANGED notC

\* lines 123-158: one frame is read, tracked, cropped and written
Frame ==
  /\ cpc = "frames" /\ frame_count < MaxFrames
  /\ \E faces \in SeqsUpTo(FaceBoxes(original_width), MaxFaces) :
       LET box   == select_face(faces, 1, x_start, x_end,
                                default_box(x_start, original_height))
           cX    == box[1] + box[2] \div 2
           half  == half_width(original_height)
           stay  == frame_count = 0 \/ (x_start - (cX - half)) < 1
           xs1   == IF stay THEN x_start ELSE cX - half
           xe1   == IF stay THEN x_end ELSE cX + half
           zero  == SliceWidth(xs1, xe1, original_width) = 0
           xs2   == fallback_start(xs1, zero, original_width, original_height)
           xe2   == IF zero THEN xs2 + vertical_width(original_height) ELSE xe1
       IN
       /\ centerX' = cX
       /\ x_start' = xs2
       /\ x_end' = xe2
       /\ emitted' = [xs |-> xs2, xe |-> xe2,
                      width |-> SliceWidth(xs2, xe2, original_width), reset |-> zero]
       /\ noFace' = (noFace /\ faces = <<>>)
  /\ before' = [xs |-> x_start, xe |-> x_end]
  /\ frame_count' = frame_count + 1
  /\ UNCHANGED <<original_width, original_height, cpc>>
  /\ UNCHANGED notC

\* lines 124-126, 160-196: no frame is left; the streams are muxed
EndOfVideo ==
  /\ cpc = "frames"
  /\ \E muxed \in BOOLEAN : cpc' = IF muxed THEN "true" ELSE "false"
  /\ UNCHANGED <<original_width, original_height, x_start, x_end, frame_count,
                 centerX, emitted, noFace, before>>
  /\ UNCHANGED notC

NextCrop == CropEnter \/ Frame \/ EndOfVideo

\* ======================================================= clip loop of main
\* generate_multiple_shorts (Components/Edit.py) and the loop of main.py

MaxBatch == 3       \* most segments in one batch

\* how the iteration of main for one clip can end
ClipOutcomes == {"crop_failed", "raised", "final", "uncaptioned"}

\* the bug C20 guards against: the error handler leaves the loop
next_clip_break(c, n, out) == IF out = "raised" THEN n + 1 ELSE c + 1

\* lines 76, 122 and the end of the loop body: the next clip is taken
next_clip(c, n, out) == c + 1

\* lines 103-105, 116-118: the clean-up removes the files of this clip
removes_initial(out) == out \in {"raised", "final"}

\* getSegments has not been called
NotHanded == [run |-> 0, segs |-> <<>>]

\* no cropped short was written for the clip
NoOutput == [video |-> 0, audio |-> 0, extracted |-> FALSE]

\* FaceCrop.py lines 75-77, 40-67: extract_audio writes temp_audio.mp3 only
\* when the extraction succeeds; a file that is already there is left alone
audio_after(ta, k, extracted) == IF extracted THEN k ELSE ta

\* FaceCrop.py lines 114-116, 155: the writer creates temp_output.mp4 when it
\* can be opened; a file that is already there is left alone
output_after(to, k, written) == IF written THEN k ELSE to

\* main.py lines 107-108, 120-121: the clean-up removes the temp directory
removes_temp(out) == out \in {"raised", "final"}

\* main is not running
MIdle ==
  /\ batch = 0 /\ initial = <<>> /\ cut = <<>> /\ outcome = <<>>
  /\ clip = 1 /\ mpc = "off"
  /\ handed = NotHanded
  /\ temp_audio = 0 /\ temp_output = 0 /\ produced = <<>>

\* main has a non-empty list of segments (line 57)
MInit ==
  /\ batch \in 1..MaxBatch
  /\ initial = [k \in 1..batch |-> FALSE]
  /\ cut = [k \in 1..batch |-> FALSE]
  /\ outcome = [k \in 1..batch |-> "pending"]
  /\ clip = 1
  /\ mpc = "cut"
  /\ handed = NotHanded
  /\ temp_audio = 0 /\ temp_output = 0
  /\ produced = [k \in 1..batch |-> NoOutput]

\* Edit.py lines 84-110: the shorts are cut in order; an error at one
\* segment ends the cutting
GenerateShorts ==
  /\ mpc = "cut"
  /\ \E failAt \in 0..batch :
       /\ initial' = [k \in 1..batch |-> failAt = 0 \/ k < failAt]
       /\ cut' = [k \in 1..batch |-> failAt = 0 \/ k < failAt]
  /\ mpc' = "loop"
  /\ temp_audio' = 0 /\ temp_output' = 0
  /\ UNCHANGED <<batch, outcome, clip, handed, produced>>
  /\ UNCHANGED notM

\* main.py lines 62-122: the iteration for one clip.  crop_to_vertical
\* extracts the audio, opens the clip, writes the cropped frames and muxes
\* whatever temp_output.mp4 and temp_audio.mp3 are there (FaceCrop.py 163-189)
ClipIteration ==
  /\ mpc = "loop" /\ clip <= batch
  /\ \E out \in ClipOutcomes, extracted, opened, written, muxed \in BOOLEAN :
       LET ta1     == audio_after(temp_audio, clip, initial[clip] /\ extracted)
           to1     == output_after(temp_output, clip, initial[clip] /\ opened /\ written)
           cropped == initial[clip] /\ opened /\ to1 # 0 /\ muxed
       IN
       /\ (out \in {"final", "uncaptioned"} => cropped)
       /\ (out = "crop_failed" => ~cropped)
       /\ outcome' = [outcome EXCEPT ![clip] = out]
       /\ initial' = [k \in 1..batch |->
                        IF k = clip /\ removes_initial(out) THEN FALSE ELSE initial[k]]
       /\ produced' = [produced EXCEPT ![clip] =
                         IF cropped
                           THEN [video |-> to1, audio |-> ta1,
                                 extracted |-> initial[clip] /\ extracted]
                           ELSE NoOutput]
       /\ temp_audio' = IF removes_temp(out) THEN 0 ELSE ta1
       /\ temp_output' = IF removes_temp(out) THEN 0 ELSE to1
       /\ clip' = next_clip(clip, batch, out)
  /\ UNCHANGED <<batch, cut, mpc, handed>>
  /\ UNCHANGED notM

\* main.py line 124: the loop is over
MainDone ==
  /\ mpc = "loop" /\ clip > batch
  /\ mpc' = "done"
  /\ UNCHANGED <<batch, initial, cut, outcome, clip, handed, temp_audio, temp_output,
                 produced>>
  /\ UNCHANGED notM

NextMain == GenerateShorts \/ ClipIteration \/ MainDone

\* main.py lines 42-55: transcribe_audio has returned a non-empty list and
\* main passes it to getSegments
HandOver ==
  /\ pc = "done" /\ ret # <<>>
  /\ handed.run # runs
  /\ handed' = [run |-> runs, segs |-> ret]
  /\ UNCHANGED <<batch, initial, cut, outcome, clip, mpc, temp_audio, temp_output,
                 produced>>
  /\ UNCHANGED notM

\* transcription followed by the hand-over to the selection stage
NextPipeline == \/ Start \/ ChunkOK \/ CkptDump \/ ChunkFail \/ Err1Dump \/ ErrCatch
                 \/ Err2Dump \/ AfterLoop \/ CommitDump \/ CommitUnlink \/ CommitText
                 \/ Crash \/ HandOver

\* ====================================================== concurrent runs
\* Two processes run transcribe_audio in the same working directory, each on
\* its own audio file.  The cache files carry the md5 of the audio in their
\* names and are private to a run; the chunk files temp/chunk_<c>.wav are
\* not.  Every chunk yields one segment, tagged with the audio it was cut
\* from and its index.

ConcChunks == 2     \* most chunks one audio file splits into

Runs == {1, 2}

\* neither run is started
WIdle ==
  /\ chunk_files = [c \in 0..(ConcChunks - 1) |-> 0]
  /\ conc_len = [r \in Runs |-> 0]
  /\ conc_pc = [r \in Runs |-> "off"]
  /\ conc_exported = [r \in Runs |-> 0]
  /\ conc_i = [r \in Runs |-> 0]
  /\ conc_segments = [r \in Runs |-> <<>>]

\* both runs have found no cached record and are about to split their audio
WInit ==
  /\ chunk_files = [c \in 0..(ConcChunks - 1) |-> 0]
  /\ conc_len \in [Runs -> 1..ConcChunks]
  /\ conc_pc = [r \in Runs |-> "split"]
  /\ conc_exported = [r \in Runs |-> 0]
  /\ conc_i = [r \in Runs |-> 0]
  /\ conc_segments = [r \in Runs |-> <<>>]

\* lines 122-129: split_audio exports the next chunk, or returns the list
ExportChunk ==
  \E r \in Runs :
    /\ conc_pc[r] = "split"
    /\ IF conc_exported[r] < conc_len[r]
         THEN /\ chunk_files' = [chunk_files EXCEPT ![conc_exported[r]] = r]
              /\ conc_exported' = [conc_exported EXCEPT ![r] = @ + 1]
              /\ conc_pc' = conc_pc
         ELSE /\ conc_pc' = [conc_pc EXCEPT ![r] = "loop"]
              /\ UNCHANGED <<chunk_files, conc_exported>>
    /\ UNCHANGED <<conc_len, conc_i, conc_segments>>
    /\ UNCHANGED notW

\* lines 181-206: the engine reads the chunk file of chunk i; a missing file
\* is a chunk error, which ends the run with the partial list (215-236)
TranscribeChunk ==
  \E r \in Runs :
    /\ conc_pc[r] = "loop" /\ conc_i[r] < conc_len[r]
    /\ IF chunk_files[conc_i[r]] = 0
         THEN /\ conc_pc' = [conc_pc EXCEPT ![r] = "done"]
              /\ conc_segments' = conc_segments
         ELSE /\ conc_pc' = [conc_pc EXCEPT ![r] = "remove"]
              /\ conc_segments' = [conc_segments EXCEPT ![r] =
                                     Append(@, <<chunk_files[conc_i[r]], conc_i[r]>>)]
    /\ UNCHANGED <<chunk_files, conc_len, conc_exported, conc_i>>
    /\ UNCHANGED notW

\* line 210: os.remove(chunk_path); a missing file is a chunk error
RemoveChunk ==
  \E r \in Runs :
    /\ conc_pc[r] = "remove"
    /\ IF chunk_files[conc_i[r]] = 0
         THEN /\ conc_pc' = [conc_pc EXCEPT ![r] = "done"]
              /\ UNCHANGED <<chunk_files, conc_i>>
         ELSE /\ chunk_files' = [chunk_files EXCEPT ![conc_i[r]] = 0]
              /\ conc_i' = [conc_i EXCEPT ![r] = @ + 1]
              /\ conc_pc' = [conc_pc EXCEPT ![r] = "loop"]
    /\ UNCHANGED <<conc_len, conc_exported, conc_segments>>
    /\ UNCHANGED notW

\* lines 222-229: the loop is over, the list is committed and returned
ConcReturn ==
  \E r \in Runs :
    /\ conc_pc[r] = "loop" /\ conc_i[r] >= conc_len[r]
    /\ conc_pc' = [conc_pc EXCEPT ![r] = "done"]
    /\ UNCHANGED <<chunk_files, conc_len, conc_exported, conc_i, conc_segments>>
    /\ UNCHANGED notW

NextConc == ExportChunk \/ TranscribeChunk \/ RemoveChunk \/ ConcReturn

\* ========================================================= save_progress
\* TranscriptionCache.save_progress called on its own.  An element of the
\* segments argument is [shape, num]: shape "list3" is a list of three
\* items, "list2" a list of two, "tuple3" a tuple of three; num tells
\* whether float() accepts its times.

MaxSaved == 2       \* most elements in the segments argument

SegmentShapes == {"list3", "list2", "tuple3"}
Elements == [shape : SegmentShapes, num : BOOLEAN]

\* the bug C30 guards against: only the length of an element is tested
valid_segment_lengthOnly(seg) == seg.shape \in {"list3", "tuple3"}

\* line 72: isinstance(segment, list) and len(segment) == 3
valid_segment(seg) == seg.shape = "list3"

\* lines 73-78: the dict built for an element that passed the test
SerializeElement(seg) == [shape |-> "seg", text |-> "w", start |-> 0, end |-> SegLen]

\* lines 70-81: "invalid" when an element fails the test (return False),
\* "error" when float() raises on an element before that (except, 111-113)
RECURSIVE Validate(_, _)
Validate(segs, k) ==
  IF k > Len(segs) THEN "ok"
  ELSE IF ~valid_segment(segs[k]) THEN "invalid"
  ELSE IF ~segs[k].num THEN "error"
  ELSE Validate(segs, k + 1)

\* save_progress is not called
PIdle ==
  /\ cache_key = "" /\ segments = <<>> /\ is_complete = FALSE
  /\ saved = "none" /\ files_before = <<Absent, Absent, Absent>> /\ ppc = "off"

\* a call of save_progress with its arguments
PInit ==
  /\ cache_key \in {"", "md5"}
  /\ segments \in SeqsUpTo(Elements, MaxSaved)
  /\ is_complete \in BOOLEAN
  /\ saved = "none"
  /\ files_before = <<progress, complete, textfile>>
  /\ ppc = "entry"

\* lines 64-88, 104-105: the key and the elements are tested, then the
\* target file is opened for writing
SaveEnter ==
  /\ ppc = "entry"
  /\ IF cache_key = "" \/ Validate(segments, 1) # "ok"
       THEN /\ saved' = "False" /\ ppc' = "done"
            /\ UNCHANGED <<progress, complete>>
       ELSE IF is_complete
         THEN /\ complete' = Trunc /\ ppc' = "commit_dump"
              /\ UNCHANGED <<progress, saved>>
         ELSE /\ progress' = Trunc /\ ppc' = "dump"
              /\ UNCHANGED <<complete, saved>>
  /\ UNCHANGED <<textfile, cache_key, segments, is_complete, files_before>>
  /\ UNCHANGED notP

\* lines 106-109: the progress record is written
SaveDump ==
  /\ ppc = "dump"
  /\ progress' = JsonList([k \in 1..Len(segments) |-> SerializeElement(segments[k])])
  /\ saved' = "True" /\ ppc' = "done"
  /\ UNCHANGED <<complete, textfile, cache_key, segments, is_complete, files_before>>
  /\ UNCHANGED notP

\* lines 89-98: the complete record is written, the progress file is
\* removed and the text file is opened
SaveCommit ==
  /\ ppc = "commit_dump"
  /\ complete' = JsonList([k \in 1..Len(segments) |-> SerializeElement(segments[k])])
  /\ progress' = Absent
  /\ textfile' = Trunc
  /\ ppc' = "commit_text"
  /\ UNCHANGED <<saved, cache_key, segments, is_complete, files_before>>
  /\ UNCHANGED notP

\* lines 99-109: the text version is written
SaveText ==
  /\ ppc = "commit_text"
  /\ textfile' = TextOf([k \in 1..Len(segments) |-> <<"w", 0, SegLen>>])
  /\ saved' = "True" /\ ppc' = "done"
  /\ UNCHANGED <<progress, complete, cache_key, segments, is_complete, files_before>>
  /\ UNCHANGED notP

NextSave == SaveEnter \/ SaveDump \/ SaveCommit \/ SaveText

\* ======================================================== specifications
\* stale or damaged files found in the cache directory at start-up
StaleSeg == [shape |-> "seg", text |-> "w", start |-> 0, end |-> SegLen]
BadEntry(sh) == [shape |-> sh, text |-> "w", start |-> 0, end |-> SegLen]
DiskContents ==
  { Absent, Trunc, JsonList(<<>>), JsonList(<<StaleSeg>>),
    JsonList(<<BadEntry("nokey")>>), JsonList(<<BadEntry("nondict"), StaleSeg>>),
    [kind |-> "object", items |-> <<BadEntry("nondict")>>],
    [kind |-> "number", items |-> <<>>] }

TInitDisk ==
  /\ TInitCommon
  /\ progress \in DiskContents
  /\ complete \in DiskContents

\* the transcriber on an empty cache directory
Init == TInit /\ SIdle /\ JIdle /\ CIdle /\ MIdle /\ WIdle /\ PIdle
Spec == Init /\ [][Next]_vars

\* the transcriber on a cache directory with files of any content
InitDisk == TInitDisk /\ SIdle /\ JIdle /\ CIdle /\ MIdle /\ WIdle /\ PIdle
SpecDisk == InitDisk /\ [][Next]_vars

\* the transcriber and main's call of the selection stage
SpecPipeline == Init /\ [][NextPipeline]_vars

\* the selector
InitSelect == TIdle /\ SInit /\ JIdle /\ CIdle /\ MIdle /\ WIdle /\ PIdle
SpecSelect == InitSelect /\ [][NextSelect]_vars

\* the selector, whose loop keeps running until it returns
SpecSelectFair == SpecSelect /\ WF_vars(NextSelect)

\* the manual JSON path
InitJson == TIdle /\ SIdle /\ JInit /\ CIdle /\ MIdle /\ WIdle /\ PIdle
SpecJson == InitJson /\ [][NextJson]_vars

\* the reframing of one clip
InitCrop == TIdle /\ SIdle /\ JIdle /\ CInit /\ MIdle /\ WIdle /\ PIdle
SpecCrop == InitCrop /\ [][NextCrop]_vars

\* the clip loop of main
InitMain == TIdle /\ SIdle /\ JIdle /\ CIdle /\ MInit /\ WIdle /\ PIdle
SpecMain == InitMain /\ [][NextMain]_vars

\* two concurrent runs of the transcriber
InitConc == TIdle /\ SIdle /\ JIdle /\ CIdle /\ MIdle /\ WInit /\ PIdle
SpecConc == InitConc /\ [][NextConc]_vars

\* cache files a call of save_progress may find
SavedFiles == {Absent, JsonList(<<StaleSeg>>)}

\* a call of save_progress on a cache directory with or without records
TInitSaved ==
  /\ TInitCommon
  /\ audio = [c \in 0..(NumChunks - 1) |-> 0]
  /\ progress \in SavedFiles
  /\ complete \in SavedFiles
InitSave == /\ TInitSaved /\ SIdle /\ JIdle /\ CIdle /\ MIdle /\ WIdle /\ PInit
            /\ textfile = Absent
SpecSave == InitSave /\ [][NextSave]_vars

\* ================================================================ claims
\* a step that performs the lookup of transcribe_audio (line 158)
LookupStep == pc \in {"idle", "done", "raised"} /\ runs' = runs + 1

\* C1: once a commit has written the complete file, every later lookup
\* returns the complete record, tagged not-partial.
C1_CompleteSupersedes ==
  [][(LookupStep /\ commitWritten)
       => (cached'.found /\ ~cached'.partial /\ cached'.data = complete)]_vars

\* C2: no reachable state has a truncated or half-written progress or
\* complete file, so an abort at any instant leaves every record readable.
C2_WholeFileWrites == progress.kind # "trunc" /\ complete.kind # "trunc"

\* C3: lookup never raises; a record that fails to parse is skipped: an
\* unreadable complete file is never returned, an unreadable progress file
\* falls through to the complete record, and two unreadable files are a miss.
C3_LookupNeverRaises ==
  [][LookupStep =>
       /\ ~cached'.raised
       /\ (JsonLoadFails(complete) => (cached'.found => cached'.partial))
       /\ (JsonLoadFails(progress) => (cached'.found => ~cached'.partial))
       /\ (JsonLoadFails(progress) /\ BlockReturns(complete)
             => (cached'.found /\ cached'.data = complete))
       /\ (JsonLoadFails(progress) /\ JsonLoadFails(complete) => ~cached'.found)]_vars

\* a run has just looked up a truncated complete file and got a miss
C3_Witness ==
  /\ runs > 0 /\ pc = "loop" /\ sttCalls = 0
  /\ JsonLoadFails(complete) /\ ~cached.found /\ ~cached.raised

\* C4: whatever the cache files contain, transcribe_audio never propagates
\* an error caused by a cache record.
C4_NeverFatal == pc # "raised"

\* C5: a run that follows a run that returned returns the same list and
\* does not invoke the engine.
C5_Idempotent ==
  (pc = "done" /\ prevRun.ended = "done") => (ret = prevRun.ret /\ sttCalls = 0)

\* C6: the returned segments satisfy start < end and are sorted by start.
C6_SortedSegments ==
  pc = "done" =>
    /\ \A k \in 1..Len(ret) : ret[k][2] < ret[k][3]
    /\ \A k \in 1..(Len(ret) - 1) : ret[k][2] <= ret[k + 1][2]

\* the transcript of a run that is never interrupted
RECURSIVE ChunksUpTo(_)
ChunksUpTo(c) == IF c = 0 THEN new_segments(0) ELSE ChunksUpTo(c - 1) \o new_segments(c)
Uninterrupted == serializable_segments(ChunksUpTo(NumChunks - 1))
\* lines 290-292: end of the last segment minus start of the first
Duration(es) == IF Len(es) = 0 THEN 0 ELSE es[Len(es)].end - es[1].start

\* C7: a committed transcript holds the segments of every chunk and has the
\* total duration of the uninterrupted run, however the runs were interrupted.
C7_NoMissingChunk ==
  complete.kind = "list" =>
    /\ \A k \in 1..Len(Uninterrupted) :
         \E m \in 1..Len(complete.items) : complete.items[m] = Uninterrupted[k]
    /\ Duration(complete.items) = Duration(Uninterrupted)

\* C8: the selector returns the empty list or exactly num_clips windows,
\* each between 15 and 60 seconds long.
C8_ExactCount ==
  spc = "done" =>
    /\ (result = <<>> \/ Len(result) = num_clips)
    /\ \A k \in 1..Len(result) :
         15 <= result[k][2] - result[k][1] /\ result[k][2] - result[k][1] <= 60

\* the scenario of C9: the last response proposes the one window "0".."4"
C9_Scenario ==
  /\ transcript = HelloWorld /\ num_clips = 1
  /\ response = [kind |-> "ok", clips |-> <<ClipStr(0, 4)>>]

\* C9 as stated: in the scenario the selector returns the window (0,4).
C9_Accepts04 == C9_Scenario => (spc = "done" /\ result = << <<0, 4>> >>)

\* C9 amended: in the scenario the window (0,4) is rejected (4 < 15), the
\* attempt consumes a retry, and the window is never returned.
C9_Rejects04 ==
  C9_Scenario =>
    /\ valid_clips = <<>>
    /\ chatCalls = max_retries - retries_left
    /\ (spc = "done" => result = <<>>)

\* the scenario's response was the last of the retries: the result is empty
C9_Witness == C9_Scenario /\ spc = "done" /\ result = <<>> /\ chatCalls > 0

\* the scenario of C10: the last response proposes (10,40) then (38,70)
C10_Scenario ==
  /\ num_clips = 2
  /\ response = [kind |-> "ok", clips |-> <<Clip(10, 40), Clip(38, 70)>>]

\* C10 as stated: both windows are accepted and returned.
C10_BothAccepted ==
  C10_Scenario => (spc = "done" /\ result = << <<10, 40>>, <<38, 70>> >>)

\* C10 amended: (10,40) is accepted, (38,70) is rejected because it shares
\* seconds 38..40 with it and is longer than 3 seconds; the attempt ends with
\* one clip of two, consumes a retry, and returns nothing.
C10_SecondRejected ==
  C10_Scenario =>
    /\ valid_clips = << <<10, 40>> >>
    /\ chatCalls = max_retries - retries_left
    /\ (spc = "done" => result = <<>>)

\* the scenario's response was the last of the retries: the result is empty
C10_Witness == C10_Scenario /\ spc = "done" /\ result = <<>> /\ chatCalls > 0

\* the last response holds a proposal of 70 seconds
C11_Scenario ==
  /\ response.kind = "ok"
  /\ \E k \in 1..Len(response.clips) : response.clips[k] = Clip(100, 170)

NotListed(w, sq) == \A k \in 1..Len(sq) : sq[k] # w

\* C11 as stated: a response with a 70-second proposal always costs a retry,
\* and the proposal is neither accepted nor returned.
C11_AlwaysConsumes ==
  C11_Scenario =>
    /\ NotListed(<<100, 170>>, valid_clips) /\ NotListed(<<100, 170>>, result)
    /\ chatCalls = max_retries - retries_left

\* C11 amended: the 70-second proposal is neither accepted nor returned; the
\* attempt costs a retry exactly when fewer than num_clips of the other
\* proposals of the response were accepted.
C11_Rejects70 ==
  C11_Scenario =>
    /\ NotListed(<<100, 170>>, valid_clips) /\ NotListed(<<100, 170>>, result)
    /\ (chatCalls = max_retries - retries_left <=> Len(valid_clips) < num_clips)
    /\ (chatCalls = max_retries - retries_left + 1 <=> Len(valid_clips) >= num_clips)

\* a response with a 70-second proposal and a valid one was accepted at once
C11_Witness ==
  /\ C11_Scenario /\ spc = "done" /\ result = << <<10, 40>> >>
  /\ chatCalls = 1 /\ retries_left = max_retries

\* the call reaches the retry loop (no early return of lines 151-160)
UsesModel == Len(reformat_transcript(transcript)) > 0 /\ valid_times(transcript) # {}

C12_Inv ==
  /\ chatCalls <= (IF max_retries > 0 THEN max_retries ELSE 0)
  /\ (spc = "while" => chatCalls = max_retries - retries_left)
  /\ (spc = "done" /\ UsesModel /\ result # <<>>
        => chatCalls = max_retries - retries_left + 1)
  /\ (spc = "done" /\ UsesModel /\ result = <<>>
        => retries_left <= 0 /\ chatCalls = max_retries - retries_left)
  /\ (spc = "done" /\ UsesModel /\ max_retries <= 0 => result = <<>> /\ chatCalls = 0)

\* C12: in the retry loop every unsuccessful attempt costs exactly one retry,
\* the model is invoked at most max_retries times, exhaustion returns the
\* empty list (at once for max_retries <= 0), and the call terminates.
C12_BoundedRetries == []C12_Inv /\ <>(spc = "done")

\* all retries were used up and the empty list came back
C12_Witness ==
  /\ spc = "done" /\ UsesModel /\ result = <<>>
  /\ max_retries = MaxRetries /\ chatCalls = MaxRetries /\ retries_left = 0

\* the window a proposal stands for, when both times convert
WindowOf(c) == <<IntConv(c.s).v, IntConv(c.e).v>>
Converts(c) == c.shape = "clip" /\ IntConv(c.s).exc = "none" /\ IntConv(c.e).exc = "none"

Overlap(a, b) == (IF a[2] < b[2] THEN a[2] ELSE b[2]) - (IF a[1] > b[1] THEN a[1] ELSE b[1])

\* C14: no two returned windows overlap by more than 5 seconds.
C14_OverlapTolerance ==
  spc = "done" =>
    \A k, m \in 1..Len(result) : k # m => Overlap(result[k], result[m]) <= 5

\* a batch of two windows was returned
C14_Witness ==
  /\ spc = "done" /\ Len(result) = 2
  /\ response = [kind |-> "ok", clips |-> <<Clip(10, 40), Clip(80, 95)>>]

\* the windows of the entries that convert and last 15 to 60 seconds, in
\* input order
RECURSIVE KeptWindows(_)
KeptWindows(clips) ==
  IF clips = <<>> THEN <<>>
  ELSE (IF /\ Converts(Head(clips))
           /\ 15 <= WindowOf(Head(clips))[2] - WindowOf(Head(clips))[1]
           /\ WindowOf(Head(clips))[2] - WindowOf(Head(clips))[1] <= 60
          THEN <<WindowOf(Head(clips))>> ELSE <<>>)
       \o KeptWindows(Tail(clips))

\* an entry on which the manual path raises TypeError
RaisesTypeError(c) ==
  \/ c.shape = "nondict"
  \/ /\ c.shape = "clip"
     /\ \/ IntConv(c.s).exc = "TypeError"
        \/ IntConv(c.s).exc = "none" /\ IntConv(c.e).exc = "TypeError"

\* C15: the manual path keeps an entry iff its duration is 15 to 60 seconds,
\* keeps overlapping entries, keeps input order, and stops reading once
\* num_clips entries are kept, so it returns at most num_clips windows.
C15_ManualPath ==
  /\ (jpc = "done" /\ json_data.kind = "ok") =>
       /\ Len(json_result) <= json_num_clips
       /\ json_result = Prefix(KeptWindows(json_data.clips), json_num_clips)
  /\ jpc = "raised" =>
       \E k \in 1..Len(json_data.clips) :
         /\ RaisesTypeError(json_data.clips[k])
         /\ Len(KeptWindows(SubSeq(json_data.clips, 1, k - 1))) < json_num_clips

\* two overlapping windows were both kept, in input order
C15_Witness ==
  /\ jpc = "done" /\ json_num_clips = 2
  /\ json_result = << <<38, 70>>, <<10, 40>> >>

\* C16: the manual path returns the empty list or exactly num_clips windows.
C16_NoPartialCount ==
  jpc = "done" => (json_result = <<>> \/ Len(json_result) = json_num_clips)

\* C17: while no frame had a detection, every frame is cropped to the
\* centered window of width vertical_width, which is not empty.
C17_CenteredWithoutFaces ==
  (noFace /\ frame_count > 0) =>
    /\ emitted.xs = centered_start(original_width, original_height)
    /\ emitted.xe - emitted.xs = vertical_width(original_height)
    /\ emitted.width = vertical_width(original_height)
    /\ emitted.width > 0
    /\ ~emitted.reset
    /\ x_start = emitted.xs /\ x_end = emitted.xe

\* several frames without a face, on a clip wider than the window
C17_Witness ==
  /\ noFace /\ frame_count >= 2
  /\ centered_start(original_width, original_height) > 0

\* C18: for every emitted frame x_end - x_start equals vertical_width.
C18_ConstantWidth ==
  frame_count > 0 => emitted.xe - emitted.xs = vertical_width(original_height)

\* C19: the window used for an emitted frame lies inside the frame.
C19_WindowInsideFrame ==
  frame_count > 0 =>
    /\ 0 <= emitted.xs /\ emitted.xe <= original_width
    /\ x_start = emitted.xs /\ x_end = emitted.xe

\* a face near the left edge pushed the window out of the frame and the
\* centered window was used instead
C19_Witness ==
  /\ frame_count > 0 /\ emitted.reset
  /\ centerX - half_width(original_height) < 0
  /\ emitted.xs = centered_start(original_width, original_height)

LoopEntered == runs > 0 /\ ~cached.raised /\ ~(cached.found /\ ~cached.partial)

\* the chunk the resumed run starts with (lines 166-167, 178)
ResumeChunk == last_chunk(DeserializeAll(SelectSeq(cached.data.items, IsDict)))

\* the partial record the run resumed from holds every segment of chunk c
CheckpointedBefore(c) ==
  /\ audio[c] > 0
  /\ \A j \in 1..audio[c] :
       \E m \in 1..Len(cached.data.items) :
         cached.data.items[m] = Serialize(new_segments(c)[j])

\* the chunks the engine was invoked on so far in this run
InvokedChunks == ResumeChunk..(ResumeChunk + sttCalls - 1)

\* C21: the list main passes to getSegments comes from a run that committed
\* it as the complete record (no partial record is left, the complete file
\* holds exactly this list).
C21_FinishedTranscriptOnly ==
  (handed.run > 0 /\ handed.run = runs) =>
    /\ complete = JsonList(serializable_segments(handed.segs))
    /\ progress.kind = "absent"

\* C23: a run restarted after a kill invokes the engine again on at most
\* one chunk that was already checkpointed before the kill.
C23_AtMostOneChunkRedone ==
  (LoopEntered /\ cached.found /\ cached.partial /\ prevRun.ended = "killed"
     /\ pc \notin {"idle", "raised"})
    => Cardinality({c \in InvokedChunks : c < NumChunks /\ CheckpointedBefore(c)}) <= 1

\* C24: a run in which the engine raised on chunk i has checkpointed the
\* accumulated segments as the partial record and ends by raising to its
\* caller instead of returning.
C24_ChunkFailureReRaised ==
  /\ (pc = "err_raise" =>
        progress = JsonList(serializable_segments(current_segments)))
  /\ ((pc \in {"done", "raised"} /\ LoopEntered /\ i < NumChunks) => pc = "raised")

\* a response of two entries: a structurally invalid one, then a valid one
C25_Scenario ==
  /\ response.kind = "ok" /\ num_clips = 1
  /\ Len(response.clips) = 2
  /\ ~Converts(response.clips[1])
  /\ response.clips[2] = Clip(10, 40)

\* C25: a structurally invalid entry of a response is skipped on its own;
\* the entries after it are still validated and can complete the batch.
C25_InvalidEntrySkipped ==
  C25_Scenario =>
    /\ valid_clips = << <<10, 40>> >>
    /\ spc = "done" /\ result = << <<10, 40>> >>

\* the seconds a window covers, both ends included
Seconds(w) == w[1]..w[2]
PairwiseDisjoint(sq) ==
  \A k, m \in 1..Len(sq) : k # m => Seconds(sq[k]) \cap Seconds(sq[m]) = {}

\* C29: the windows accepted from one response, and the windows returned,
\* never share a second, not even an endpoint.
C29_DisjointWindows == PairwiseDisjoint(valid_clips) /\ PairwiseDisjoint(result)

\* (40,70) was proposed after (10,40) and was not accepted
C29_Witness ==
  /\ response = [kind |-> "ok", clips |-> <<Clip(10, 40), Clip(40, 70)>>]
  /\ num_clips = 2
  /\ valid_clips = << <<10, 40>> >>

Abs(n) == IF n < 0 THEN 0 - n ELSE n

\* C26: on every frame after the first the window stays when its start is
\* less than 1 pixel from centerX - half_width, and is recentered on centerX
\* otherwise, to either side.
C26_Hysteresis ==
  (frame_count > 1 /\ ~emitted.reset) =>
    LET target == centerX - half_width(original_height) IN
    IF Abs(before.xs - target) < 1
      THEN x_start = before.xs /\ x_end = before.xe
      ELSE x_start = target /\ x_end = centerX + half_width(original_height)

\* C27: after the zero-width fallback the tracked window is what it was
\* before the fallback: the window of the previous frame or the window
\* computed for this frame, not the centered one.
C27_FallbackNotPersistent ==
  (frame_count > 0 /\ emitted.reset) =>
    \/ x_start = before.xs /\ x_end = before.xe
    \/ /\ x_start = centerX - half_width(original_height)
       /\ x_end = centerX + half_width(original_height)

\* C28: the cropped short of a clip is muxed from the frames written for
\* this clip and from this clip's own audio, or from no audio when none
\* could be extracted from it, whatever clips were reframed before it.
C28_NoStateAcrossClips ==
  mpc \in {"loop", "done"} =>
    \A k \in 1..batch :
      produced[k] # NoOutput =>
        /\ produced[k].video = k
        /\ produced[k].audio = (IF produced[k].extracted THEN k ELSE 0)

\* the transcript a run produces when it runs alone
Alone(r) == [c \in 1..conc_len[r] |-> <<r, c - 1>>]

\* C22: each of two concurrent runs on different audio files returns the
\* transcript it would return when run alone.
C22_NoContention ==
  \A r \in Runs : conc_pc[r] = "done" => conc_segments[r] = Alone(r)

\* the call must be refused: the key is empty or an element is not a
\* 3-element list
MustRefuse ==
  \/ cache_key = ""
  \/ \E k \in 1..Len(segments) : segments[k].shape # "list3"

\* C30: a call with an empty key or with an element that is not a
\* 3-element list returns False and never touches a cache file.
C30_ValidatesBeforeWriting ==
  (ppc # "off" /\ MustRefuse) =>
    /\ <<progress, complete, textfile>> = files_before
    /\ (ppc = "done" => saved = "False")

\* a commit of a list whose second element is a tuple was refused, and the
\* records that were there are still there
C30_Witness ==
  /\ ppc = "done" /\ saved = "False"
  /\ cache_key = "md5" /\ is_complete
  /\ Len(segments) = 2
  /\ segments[1] = [shape |-> "list3", num |-> TRUE]
  /\ segments[2] = [shape |-> "tuple3", num |-> TRUE]
  /\ progress = JsonList(<<StaleSeg>>) /\ complete = JsonList(<<StaleSeg>>)

====
